---- MODULE Spec2Model ----
(***************************************************************************)
(* Expense CRUD service of src/main.go: four fiber handlers (getExpenses,  *)
(* createExpense, updateExpense, removeExpense) in front of one MongoDB    *)
(* collection `coll`.  Every handler validates locally, makes exactly one  *)
(* store call with context.Background()/context.TODO() (no deadline) and   *)
(* maps the store's answer to an HTTP status.  A request is modelled in    *)
(* two steps: the handler up to its store call, and the store executing    *)
(* the call atomically together with the handler's lines after it.         *)
(***************************************************************************)
EXTENDS Integers, Sequences, FiniteSets, TLC

\* ---------------------------------------------------------------- bounds
MaxIds == 2          \* distinct well-formed ObjectIDs in one run
MaxTime == 1         \* last value of the service clock

Clients == {1, 2}
ObjectIDs == 1..MaxIds

\* ------------------------------------------------------- optional values
\* A nil pointer (*string, *float32) is the empty sequence, a set one <<v>>.
Nil == <<>>
Some(v) == <<v>>

\* --------------------------------------------------------------- float32
\* Cost is *float32 (main.go:21): a JSON number is rounded to the nearest
\* value with a 24-bit significand, ties to even.  The model feeds in
\* integers only.

\* The spacing of float32 values around n >= 0: 1 below 2^24, doubling with
\* every further binary digit.
RECURSIVE Ulp(_, _)
Ulp(n, s) == IF n < 16777216 * s THEN s ELSE Ulp(n, 2 * s)

RoundNat(n) ==
    LET s == Ulp(n, 1)
        q == n \div s
        r == n % s
    IN  IF 2 * r < s THEN q * s
        ELSE IF 2 * r > s THEN (q + 1) * s
        ELSE IF q % 2 = 0 THEN q * s ELSE (q + 1) * s

Float32(n) == IF n < 0 THEN 0 - RoundNat(0 - n) ELSE RoundNat(n)

\* ------------------------------------------------------------------ state
VARIABLES
    coll,     \* the documents of the collection golang_db.expenses (main.go:25,48)
    conn,     \* per connection: the request, the handler's locals and its response
    now,      \* the service clock read by time.Now()
    seen      \* ObjectIDs that some document has carried: the driver's
              \* generator never repeats one of them

vars == <<coll, conn, now, seen>>

\* ----------------------------------------------------------------- inputs
ClientDate == 0 - 1              \* a createdDate a client writes into a body
CostInputs == {0 - 1, 0, 1, 16777217}
DescInputs == {"", "a", "b"}

\* A request body: malformed, or a JSON object whose members may be absent.
MalformedBody ==
    [wf |-> FALSE, _id |-> 0, description |-> Nil, cost |-> Nil, createdDate |-> Nil]

\* Members the Expense struct decodes besides description and cost.
Extras ==
    {[_id |-> 0, createdDate |-> Nil], [_id |-> 0, createdDate |-> Some(ClientDate)]}
    \cup {[_id |-> i, createdDate |-> Some(ClientDate)] : i \in ObjectIDs}

JsonBodies ==
    {[wf |-> TRUE, _id |-> x._id, description |-> d, cost |-> k,
      createdDate |-> x.createdDate] :
        x \in Extras,
        d \in {Nil} \cup {Some(v) : v \in DescInputs},
        k \in {Nil} \cup {Some(v) : v \in CostInputs}}

Bodies == JsonBodies \cup {MalformedBody}

\* The bodies of the runs with two connections: description and cost only,
\* each way of being valid, invalid or absent once.
Body(d, k) == [wf |-> TRUE, _id |-> 0, description |-> d, cost |-> k, createdDate |-> Nil]
CoreBodies ==
    {Body(Some("a"), Some(1)), Body(Some("b"), Some(16777217)),
     Body(Some("a"), Some(0)), Body(Some(""), Some(1)), Body(Nil, Some(0 - 1)),
     Body(Some("b"), Nil), Body(Nil, Some(16777217)), Body(Some(""), Nil),
     MalformedBody}

\* What a connection keeps of the body its handler has read: whether it
\* parsed, and the description and cost members as sent.
NoReq == [read |-> FALSE, wf |-> FALSE, description |-> Nil, cost |-> Nil]
Req(body) ==
    [read |-> TRUE, wf |-> body.wf, description |-> body.description, cost |-> body.cost]

\* The :id path parameter: 24 hex digits of an ObjectID, or anything else.
BadParam == [wf |-> FALSE, oid |-> 0]
PathParams == {[wf |-> TRUE, oid |-> i] : i \in ObjectIDs} \cup {BadParam}

\* ------------------------------------------------------------------ types
NilObjectID == 0

\* type Expense (main.go:18-23); the zero value is what &Expense{} holds.
Expense(id, d, c, t) == [ID |-> id, Description |-> d, Cost |-> c, CreatedDate |-> t]
ZeroExpense == Expense(NilObjectID, Nil, Nil, 0)

\* A stored document (the bson tags of Expense).
Doc(id, d, c, t) == [_id |-> id, description |-> d, cost |-> c, createdDate |-> t]

costNotPositiveNumErr == "cost must be a positive number"
descriptionEmptyErr == "description must not be empty"
noEntityErr == "no entity with such id"
parseErr == "body parser error"
hexErr == "invalid ObjectID hex"
dupKeyErr == "E11000 duplicate key error"
storeErr == "store unavailable"

\* c.BodyParser(expense): decodes the JSON members into the struct's fields.
BodyParser(body) ==
    IF ~body.wf
    THEN [err |-> TRUE, expense |-> ZeroExpense]
    ELSE [err |-> FALSE,
          expense |-> Expense(body._id,
                              body.description,
                              IF body.cost = Nil THEN Nil ELSE Some(Float32(body.cost[1])),
                              IF body.createdDate = Nil THEN 0 ELSE body.createdDate[1])]

\* bson.ObjectIDFromHex(id)
ObjectIDFromHex(p) ==
    IF p.wf THEN [err |-> FALSE, id |-> p.oid] ELSE [err |-> TRUE, id |-> NilObjectID]

\* The validation tests of createExpense (main.go:110, 114) ...
CreateCostRejected_ZeroPasses(expense) == expense.Cost = Nil \/ expense.Cost[1] < 0
CreateCostRejected(expense) == expense.Cost = Nil \/ expense.Cost[1] <= 0
CreateDescriptionRejected_NilOnly(expense) == expense.Description = Nil
CreateDescriptionRejected(expense) ==
    expense.Description = Nil \/ expense.Description[1] = ""

\* ... and of updateExpense (main.go:143-144, 150-151).
UpdateCostRejected(newExpense) == newExpense.Cost # Nil /\ newExpense.Cost[1] <= 0
UpdateDescriptionRejected_Skipped(newExpense) == FALSE
UpdateDescriptionRejected(newExpense) ==
    newExpense.Description # Nil /\ newExpense.Description[1] = ""

\* newExpenseBson (main.go:141-155): a key for every non-nil field.
NewExpenseBson(newExpense) ==
    [description |-> newExpense.Description, cost |-> newExpense.Cost]

\* ------------------------------------------------------------ connections
NoSet == [description |-> Nil, cost |-> Nil]

\* pc: "idle" (no request), "called" (the handler waits on its store call),
\* "done" (the handler has returned; status, msg, doc and list are the response).
Idle ==
    [pc |-> "idle", op |-> "none", req |-> NoReq, id |-> NilObjectID,
     doc |-> ZeroExpense, set |-> NoSet, status |-> 0, msg |-> "", list |-> {}]

Called(op, req, id, doc, set) ==
    [Idle EXCEPT !.pc = "called", !.op = op, !.req = req, !.id = id,
                 !.doc = doc, !.set = set]

\* return c.Status(status).JSON(getErrorResp(err) or one of the error maps)
Fail(op, req, status, msg) ==
    [Idle EXCEPT !.pc = "done", !.op = op, !.req = req, !.status = status, !.msg = msg]

Init ==
    /\ coll = {}
    /\ conn = [c \in Clients |-> Idle]
    /\ now = 0
    /\ seen = {}

\* Inserts without _id that are in flight: each will draw a generated id.
\* createExpense takes such a request only while the model's finite id space
\* has an unused id left for it.
PendingGen ==
    Cardinality({c \in Clients : /\ conn[c].pc = "called"
                                 /\ conn[c].op = "create"
                                 /\ conn[c].doc.ID = NilObjectID})

\* --------------------------------------------------------------- handlers
\* getExpenses up to coll.Find (main.go:89-90)
getExpenses(c) ==
    /\ conn[c].pc = "idle"
    /\ conn' = [conn EXCEPT ![c] = Called("list", NoReq, NilObjectID, ZeroExpense, NoSet)]
    /\ UNCHANGED <<coll, now, seen>>

\* createExpense up to coll.InsertOne (main.go:104-120)
createExpense(c, body) ==
    LET p == BodyParser(body)
        expense == p.expense
    IN  /\ conn[c].pc = "idle"
        /\ IF p.err
           THEN conn' = [conn EXCEPT ![c] = Fail("create", Req(body), 400, parseErr)]
           ELSE IF CreateCostRejected(expense)
           THEN conn' = [conn EXCEPT ![c] = Fail("create", Req(body), 400, costNotPositiveNumErr)]
           ELSE IF CreateDescriptionRejected(expense)
           THEN conn' = [conn EXCEPT ![c] = Fail("create", Req(body), 400, descriptionEmptyErr)]
           ELSE /\ expense.ID = NilObjectID => Cardinality(ObjectIDs \ seen) > PendingGen
                /\ conn' = [conn EXCEPT ![c] =
                              Called("create", Req(body), NilObjectID,
                                     [expense EXCEPT !.CreatedDate = now], NoSet)]
        /\ UNCHANGED <<coll, now, seen>>

\* updateExpense up to coll.UpdateOne (main.go:130-161)
updateExpense(c, param, body) ==
    LET o == ObjectIDFromHex(param)
        p == BodyParser(body)
        newExpense == p.expense
    IN  /\ conn[c].pc = "idle"
        /\ IF o.err
           THEN conn' = [conn EXCEPT ![c] = Fail("update", NoReq, 400, hexErr)]
           ELSE IF p.err
           THEN conn' = [conn EXCEPT ![c] = [Fail("update", Req(body), 400, parseErr)
                                              EXCEPT !.id = o.id]]
           ELSE IF UpdateCostRejected(newExpense)
           THEN conn' = [conn EXCEPT ![c] = [Fail("update", Req(body), 400, costNotPositiveNumErr)
                                              EXCEPT !.id = o.id]]
           ELSE IF UpdateDescriptionRejected(newExpense)
           THEN conn' = [conn EXCEPT ![c] = [Fail("update", Req(body), 400, descriptionEmptyErr)
                                              EXCEPT !.id = o.id]]
           ELSE conn' = [conn EXCEPT ![c] =
                           Called("update", Req(body), o.id, ZeroExpense,
                                  NewExpenseBson(newExpense))]
        /\ UNCHANGED <<coll, now, seen>>

\* removeExpense up to coll.DeleteOne (main.go:169-179)
removeExpense(c, param) ==
    LET o == ObjectIDFromHex(param)
    IN  /\ conn[c].pc = "idle"
        /\ IF o.err
           THEN conn' = [conn EXCEPT ![c] = Fail("remove", NoReq, 400, hexErr)]
           ELSE conn' = [conn EXCEPT ![c] =
                           Called("remove", NoReq, o.id, ZeroExpense, NoSet)]
        /\ UNCHANGED <<coll, now, seen>>

\* -------------------------------------- the store call and the lines after
Ids(docs) == {d._id : d \in docs}

\* bson.NewObjectID(), called by the driver for a document without _id: an
\* identifier no earlier insert has carried.
NewObjectID == CHOOSE i \in ObjectIDs \ seen : \A j \in ObjectIDs \ seen : i <= j

\* coll.Find + cursor.All answer with every document; getExpenses returns them
\* (main.go:90-101).
getExpensesFind(c) ==
    /\ conn[c].pc = "called" /\ conn[c].op = "list"
    /\ conn' = [conn EXCEPT ![c] = [@ EXCEPT !.pc = "done", !.status = 200, !.list = coll]]
    /\ UNCHANGED <<coll, now, seen>>

\* coll.InsertOne: `_id,omitempty` leaves a zero ID out, and the driver then
\* generates one; the collection's _id index rejects a duplicate.
\* createExpense returns 201 with the inserted id (main.go:120-127).
createExpenseInsertOne(c) ==
    LET expense == conn[c].doc
        gen == expense.ID = NilObjectID
    IN  /\ conn[c].pc = "called" /\ conn[c].op = "create"
        /\ gen => ObjectIDs \ seen # {}
        /\ LET InsertedID == IF gen THEN NewObjectID ELSE expense.ID
           IN  /\ seen' = seen \cup {InsertedID}
               /\ IF InsertedID \in Ids(coll)
                  THEN /\ conn' = [conn EXCEPT ![c] =
                                     [@ EXCEPT !.pc = "done", !.status = 400,
                                               !.msg = dupKeyErr]]
                       /\ UNCHANGED coll
                  ELSE /\ coll' = coll \cup
                                  {Doc(InsertedID, expense.Description[1],
                                       expense.Cost[1], expense.CreatedDate)}
                       /\ conn' = [conn EXCEPT ![c] =
                                     [@ EXCEPT !.pc = "done", !.status = 201,
                                               !.id = InsertedID,
                                               !.doc = [expense EXCEPT !.ID = InsertedID]]]
        /\ UNCHANGED now

\* $set on the matched document: only the keys of the update document change.
ApplySet_Defaults(d, set) ==
    [d EXCEPT !.description = IF set.description = Nil THEN "" ELSE set.description[1],
              !.cost = IF set.cost = Nil THEN 0 ELSE set.cost[1]]
ApplySet(d, set) ==
    [d EXCEPT !.description = IF set.description = Nil THEN @ ELSE set.description[1],
              !.cost = IF set.cost = Nil THEN @ ELSE set.cost[1]]

\* UpdateOne with the filter {_id: id}: at most one document matches.
UpdateOne(docs, id, set) == {IF d._id = id THEN ApplySet(d, set) ELSE d : d \in docs}

\* DeleteOne with the filter {_id: id}.
DeleteOne_NoFilter(docs, id) == IF id \in Ids(docs) THEN {} ELSE docs
DeleteOne(docs, id) == {d \in docs : d._id # id}

\* The status updateExpense returns once UpdateOne's err is nil (main.go:157,
\* 166): the UpdateResult, MatchedCount included, is assigned to _.
UpdateStatus(MatchedCount) == 200

\* coll.UpdateOne({_id: id}, {$set: newExpenseBson}) and the lines after it
\* (main.go:157-166); matching nothing is not an error of the store.
updateExpenseUpdateOne(c) ==
    LET MatchedCount == Cardinality({d \in coll : d._id = conn[c].id})
    IN  /\ conn[c].pc = "called" /\ conn[c].op = "update"
        /\ coll' = UpdateOne(coll, conn[c].id, conn[c].set)
        /\ conn' = [conn EXCEPT ![c] =
                      [@ EXCEPT !.pc = "done", !.status = UpdateStatus(MatchedCount)]]
        /\ UNCHANGED <<now, seen>>

\* The status removeExpense returns once DeleteOne's err is nil (main.go:183-190).
RemoveStatus(DeletedCount) == IF DeletedCount = 0 THEN 404 ELSE 200

\* coll.DeleteOne({_id: id}) and the lines after it (main.go:176-190).
removeExpenseDeleteOne(c) ==
    LET DeletedCount == Cardinality({d \in coll : d._id = conn[c].id})
    IN  /\ conn[c].pc = "called" /\ conn[c].op = "remove"
        /\ coll' = DeleteOne(coll, conn[c].id)
        /\ conn' = [conn EXCEPT ![c] =
                      [@ EXCEPT !.pc = "done", !.status = RemoveStatus(DeletedCount),
                                !.msg = IF DeletedCount = 0 THEN noEntityErr ELSE ""]]
        /\ UNCHANGED <<now, seen>>

\* Any store call may come back with err != nil (the store is unreachable, or
\* an old server refuses an empty $set); every handler answers 400.
StoreError(c) ==
    /\ conn[c].pc = "called"
    /\ conn' = [conn EXCEPT ![c] = [@ EXCEPT !.pc = "done", !.status = 400, !.msg = storeErr]]
    /\ UNCHANGED <<coll, now, seen>>

\* The client reads the response (`await res.json()`) and is free to send its
\* next request.
Receive(c) ==
    /\ conn[c].pc = "done"
    /\ conn' = [conn EXCEPT ![c] = Idle]
    /\ UNCHANGED <<coll, now, seen>>

\* The clock advances between any two steps.
Tick ==
    /\ now < MaxTime
    /\ now' = now + 1
    /\ UNCHANGED <<coll, conn, seen>>

NextOf(cs, bodies) ==
    \/ \E c \in cs : getExpenses(c)
    \/ \E c \in cs, body \in bodies : createExpense(c, body)
    \/ \E c \in cs, param \in PathParams, body \in bodies : updateExpense(c, param, body)
    \/ \E c \in cs, param \in PathParams : removeExpense(c, param)
    \/ \E c \in cs : getExpensesFind(c)
    \/ \E c \in cs : createExpenseInsertOne(c)
    \/ \E c \in cs : updateExpenseUpdateOne(c)
    \/ \E c \in cs : removeExpenseDeleteOne(c)
    \/ \E c \in cs : StoreError(c)
    \/ \E c \in cs : Receive(c)

\* One connection, every body, the clock running.
Next == NextOf({1}, Bodies) \/ Tick

Spec == Init /\ [][Next]_vars

\* Two connections racing, the clock at rest.
ConcNext == NextOf(Clients, CoreBodies)

ConcSpec == Init /\ [][ConcNext]_vars

\* Time passes; nothing obliges the store to answer a call.
LiveSpec == Spec /\ WF_vars(Tick)

\* ================================================================= claims
\* The step in which the store answers c's call of kind op without an error of
\* its own, and the handler returns.
Answered(c, op) ==
    /\ conn[c].pc = "called" /\ conn[c].op = op
    /\ conn'[c].pc = "done" /\ conn'[c].msg # storeErr

\* The step in which c's handler for op takes up a request.
Takes(c, op) == conn[c].pc = "idle" /\ conn'[c].pc # "idle" /\ conn'[c].op = op

TheDoc(docs, id) == CHOOSE d \in docs : d._id = id

\* C1: every persisted record has a cost > 0 and a non-empty description,
\* whatever requests the two connections interleave.
C1_PersistedValid == \A d \in coll : d.cost > 0 /\ d.description # ""

C1_Witness ==
    /\ Cardinality(coll) = 2
    /\ conn[1].pc = "done" /\ conn[1].op = "update" /\ conn[1].status = 200
    /\ conn[1].id \in Ids(coll) /\ conn[1].set.cost # Nil
    /\ conn[2].pc = "called" /\ conn[2].op = "remove" /\ conn[2].id = conn[1].id

\* C2: an update whose well-formed id matches no stored record returns 404
\* and leaves the store unchanged.
C2_UpdateMissingIs404 ==
    [][\A c \in Clients :
          (Answered(c, "update") /\ conn[c].id \notin Ids(coll))
              => (conn'[c].status = 404 /\ coll' = coll)]_vars

\* A body createExpense has to reject: cost absent, zero or negative, or
\* description absent or empty.
BadAdd(b) ==
    \/ b.cost = Nil \/ b.cost[1] <= 0
    \/ b.description = Nil \/ b.description[1] = ""

\* C3: an add whose cost is absent, zero or negative, or whose description is
\* absent or empty, is answered 400 with a validation message in the step that
\* takes it up, without a store call, and the store is unchanged.
C3_AddRejected ==
    [][\A c \in Clients :
          (Takes(c, "create") /\ conn'[c].req.wf /\ BadAdd(conn'[c].req))
              => /\ conn'[c].pc = "done"
                 /\ conn'[c].status = 400
                 /\ conn'[c].msg \in {costNotPositiveNumErr, descriptionEmptyErr}
                 /\ coll' = coll]_vars

C3_Witness ==
    \E c \in Clients :
        /\ conn[c].pc = "done" /\ conn[c].op = "create" /\ conn[c].status = 400
        /\ conn[c].req.wf /\ BadAdd(conn[c].req)
        /\ coll # {}

\* What a successful update of a stored record does when the body supplies
\* only cost or only description; `asSent` compares the stored cost with the
\* number in the body, otherwise with the float32 it decodes to.
UpdateChangesOnlySupplied(c, asSent) ==
    LET b == conn[c].req
        old == TheDoc(coll, conn[c].id)
        new == TheDoc(coll', conn[c].id)
    IN  /\ conn'[c].status = 200
        /\ Ids(coll') = Ids(coll)
        /\ Cardinality(coll') = Cardinality(coll)
        /\ coll' \ {new} = coll \ {old}
        /\ new.createdDate = old.createdDate
        /\ (b.cost # Nil /\ b.description = Nil)
              => /\ new.cost = IF asSent THEN b.cost[1] ELSE Float32(b.cost[1])
                 /\ new.description = old.description
        /\ (b.cost = Nil /\ b.description # Nil)
              => /\ new.description = b.description[1]
                 /\ new.cost = old.cost

OneFieldUpdate(c) ==
    /\ Answered(c, "update")
    /\ conn[c].id \in Ids(coll)
    /\ (conn[c].req.cost = Nil) # (conn[c].req.description = Nil)

\* C4, as claimed: a successful update with only cost supplied sets cost to
\* the value sent and leaves description, createdDate and id alone; with only
\* description supplied it sets description and leaves the rest alone; every
\* other record is unchanged.
C4_UpdateExactlySupplied ==
    [][\A c \in Clients : OneFieldUpdate(c) => UpdateChangesOnlySupplied(c, TRUE)]_vars

\* C4, amended: the same, the new cost being the value sent rounded to float32.
C4_UpdateSuppliedAsFloat32 ==
    [][\A c \in Clients : OneFieldUpdate(c) => UpdateChangesOnlySupplied(c, FALSE)]_vars

C4_Witness ==
    \E c \in Clients :
        /\ conn[c].pc = "done" /\ conn[c].op = "update" /\ conn[c].status = 200
        /\ conn[c].req.cost = Some(16777217) /\ conn[c].req.description = Nil
        /\ Cardinality(coll) = 2
        /\ \E d \in coll : d._id = conn[c].id /\ d.cost = 16777216 /\ d.createdDate < now

\* C5: an update that supplies both fields, at least one of them invalid, is
\* rejected with a validation error in the step that takes it up: no store
\* call is made and no record changes.
C5_UpdateAllOrNothing ==
    [][\A c \in Clients :
          (/\ Takes(c, "update")
           /\ conn'[c].id \in ObjectIDs
           /\ conn'[c].req.wf
           /\ conn'[c].req.cost # Nil /\ conn'[c].req.description # Nil
           /\ (conn'[c].req.cost[1] <= 0 \/ conn'[c].req.description[1] = ""))
              => /\ conn'[c].pc = "done"
                 /\ conn'[c].status = 400
                 /\ conn'[c].msg \in {costNotPositiveNumErr, descriptionEmptyErr}
                 /\ coll' = coll]_vars

C5_Witness ==
    \E c \in Clients :
        /\ conn[c].pc = "done" /\ conn[c].op = "update" /\ conn[c].status = 400
        /\ conn[c].req.cost = Some(16777217) /\ conn[c].req.description = Some("")
        /\ \E d \in coll : d._id = conn[c].id /\ d.cost = 1

\* C6: every valid add (cost > 0, description non-empty; here with a cost that
\* float32 holds exactly) that the store answers returns 201 with the created
\* record; the store then holds exactly one more record, which carries the
\* requested description and cost and an id no stored record had, and all other
\* records are as before; a list returns exactly the stored records.
C6_ValidAddCreates ==
    [][\A c \in Clients :
          /\ (/\ Answered(c, "create")
              /\ ~BadAdd(conn[c].req)
              /\ Float32(conn[c].req.cost[1]) = conn[c].req.cost[1])
                => /\ conn'[c].status = 201
                   /\ conn'[c].id \notin Ids(coll)
                   /\ Cardinality(coll') = Cardinality(coll) + 1
                   /\ \E d \in coll' :
                         /\ coll' = coll \cup {d}
                         /\ d._id = conn'[c].id
                         /\ d.description = conn[c].req.description[1]
                         /\ d.cost = conn[c].req.cost[1]
                         /\ conn'[c].doc =
                              Expense(d._id, Some(d.description), Some(d.cost), d.createdDate)
          /\ Answered(c, "list") => conn'[c].list = coll]_vars

\* C7: a remove of a stored record's id that the store answers returns 200,
\* removes exactly that record and leaves the others unchanged, and a list
\* returns exactly the stored records, so not that id.
C7_RemoveExactlyThat ==
    [][\A c \in Clients :
          /\ (Answered(c, "remove") /\ conn[c].id \in Ids(coll))
                => /\ conn'[c].status = 200
                   /\ coll' = coll \ {TheDoc(coll, conn[c].id)}
                   /\ Cardinality(coll') = Cardinality(coll) - 1
                   /\ conn[c].id \notin Ids(coll')
          /\ Answered(c, "list")
                => /\ conn'[c].status = 200
                   /\ conn'[c].list = coll
                   /\ coll' = coll]_vars

C7_Witness ==
    \E c \in Clients :
        /\ conn[c].pc = "done" /\ conn[c].op = "remove" /\ conn[c].status = 200
        /\ conn[c].id \notin Ids(coll)
        /\ coll # {}

\* C8: an id whose record has been removed (it is in seen and not stored) is
\* never stored again, so every later remove of it returns 404; and a remove
\* of any id that matches no stored record returns 404 and changes nothing.
C8_RemovedStaysGone ==
    [][/\ \A i \in ObjectIDs : (i \in seen /\ i \notin Ids(coll)) => i \notin Ids(coll')
       /\ \A c \in Clients :
             (Answered(c, "remove") /\ conn[c].id \notin Ids(coll))
                 => (conn'[c].status = 404 /\ coll' = coll)]_vars

\* C9: the id of a created record is the one the driver generates, never one
\* from the body, and its createdDate is a reading of the service clock; no
\* update changes the id or the createdDate of any record.
C9_ServerAssignedFields ==
    [][\A c \in Clients :
          /\ (Answered(c, "create") /\ conn'[c].status = 201)
                => /\ conn'[c].id \notin seen
                   /\ ObjectIDs \ seen # {} => conn'[c].id = NewObjectID
                   /\ TheDoc(coll', conn'[c].id).createdDate \in 0..now
          /\ Answered(c, "update")
                => {[_id |-> d._id, createdDate |-> d.createdDate] : d \in coll'}
                   = {[_id |-> d._id, createdDate |-> d.createdDate] : d \in coll}]_vars

\* C10: every request is answered, also when the store never answers: a call
\* in flight leads to a response.
C10_EveryCallReturns ==
    \A c \in Clients : (conn[c].pc = "called") ~> (conn[c].pc = "done")

====
